---- MODULE Spec2Model ----
(***************************************************************************)
(* Model of the OpenKalsh data-normalisation code:                         *)
(*   scripts/kalshi_api.py     parse_kalshi_url, event_to_market_result,   *)
(*                             _market_price_cents,                        *)
(*                             events_to_browse_list, _ticker_to_slug,     *)
(*                             _api_get, fetch_event                       *)
(*   scripts/scrape_markets.py _parse_price, scrape_market_page            *)
(*   main.py                   market                                      *)
(* Every function is pure, so a behaviour is one call: Init draws the      *)
(* function and its arguments, the function's action computes the result.  *)
(*                                                                         *)
(* Text is a sequence of one-character strings.  An optional value (a      *)
(* Python value that may be None, or a dict key that may be missing) is a  *)
(* sequence of length at most one: None == <<>>, Some(v) == <<v>>.         *)
(* A number read from JSON is kept in tenths (655 is 65.5).                *)
(***************************************************************************)
EXTENDS Integers, Sequences, FiniteSets, TLC

VARIABLES fn, pc, url, event, raw_market, price_text, page, transport,
          browse_events, browse_max, slug_title, result

vars ==
  <<fn, pc, url, event, raw_market, price_text, page, transport,
    browse_events, browse_max, slug_title, result>>

None == <<>>

Some(v) == <<v>>

\* ------------------------------------------------------------------------
\* Python str helpers
\* ------------------------------------------------------------------------

LowerChars ==
  <<"a","b","c","d","e","f","g","h","i","j","k","l","m",
    "n","o","p","q","r","s","t","u","v","w","x","y","z">>

UpperChars ==
  <<"A","B","C","D","E","F","G","H","I","J","K","L","M",
    "N","O","P","Q","R","S","T","U","V","W","X","Y","Z">>

DigitChars == <<"0","1","2","3","4","5","6","7","8","9">>

Range(s) == {s[i] : i \in 1..Len(s)}

IndexIn(c, s) == IF c \in Range(s) THEN CHOOSE i \in 1..Len(s) : s[i] = c ELSE 0

IsAlpha(c) == c \in Range(LowerChars) \cup Range(UpperChars)

IsDigit(c) == c \in Range(DigitChars)

UpperChar(c) == IF c \in Range(LowerChars) THEN UpperChars[IndexIn(c, LowerChars)] ELSE c

LowerChar(c) == IF c \in Range(UpperChars) THEN LowerChars[IndexIn(c, UpperChars)] ELSE c

\* str.upper()
Upper(s) == [i \in 1..Len(s) |-> UpperChar(s[i])]

\* str.lower()
Lower(s) == [i \in 1..Len(s) |-> LowerChar(s[i])]

\* s[a-1 : b] of Python, 1-based and inclusive here; empty when a > b
Slice(s, a, b) == IF a > b THEN <<>> ELSE SubSeq(s, a, b)

\* s.find(c, from): least 1-based index >= from holding c, 0 when there is none
Find(s, c, from) ==
  LET hits == {i \in from..Len(s) : s[i] = c}
  IN IF hits = {} THEN 0 ELSE CHOOSE i \in hits : \A j \in hits : i <= j

\* s.rfind(c): greatest index holding c, 0 when there is none
RFind(s, c) ==
  LET hits == {i \in 1..Len(s) : s[i] = c}
  IN IF hits = {} THEN 0 ELSE CHOOSE i \in hits : \A j \in hits : i >= j

\* s.strip(chars): drop every leading and trailing character that is in cs
StripChars(s, cs) ==
  LET keep == {i \in 1..Len(s) : s[i] \notin cs}
  IN IF keep = {} THEN <<>>
     ELSE LET lo == CHOOSE i \in keep : \A j \in keep : i <= j
              hi == CHOOSE i \in keep : \A j \in keep : i >= j
          IN SubSeq(s, lo, hi)

\* s.strip(): the characters of the model's alphabet that are whitespace
Strip(s) == StripChars(s, {" "})

\* s.split(c): the pieces between the occurrences of c (one piece, s, when
\* there is none)
RECURSIVE Split(_, _)
Split(s, c) ==
  LET i == Find(s, c, 1)
  IN IF i = 0 THEN <<s>>
     ELSE <<Slice(s, 1, i - 1)>> \o Split(Slice(s, i + 1, Len(s)), c)

\* ------------------------------------------------------------------------
\* urllib.parse.urlparse, as parse_kalshi_url uses it: only .path is read,
\* and a ValueError of the library propagates to the caller
\* ------------------------------------------------------------------------

SchemeChars == Range(LowerChars) \cup Range(UpperChars) \cup Range(DigitChars) \cup {"+", "-", "."}

\* the schemes of urllib's uses_params that the model's alphabet can spell
UsesParams == { <<>>, <<"h","t","t","p">>, <<"h","t","t","p","s">>, <<"f","t","p">> }

\* scheme detection of urlsplit: [scheme, rest]
SplitScheme(u) ==
  LET i == Find(u, ":", 1)
  IN IF i > 1 /\ IsAlpha(u[1]) /\ \A j \in 1..(i - 1) : u[j] \in SchemeChars
     THEN [scheme |-> Lower(Slice(u, 1, i - 1)), rest |-> Slice(u, i + 1, Len(u))]
     ELSE [scheme |-> <<>>, rest |-> u]

\* _splitnetloc(url, 2): the netloc ends before the first of / ? #
SplitNetloc(u) ==
  LET ends == {i \in 3..Len(u) : u[i] \in {"/", "?", "#"}}
      delim == IF ends = {} THEN Len(u) + 1 ELSE CHOOSE i \in ends : \A j \in ends : i <= j
  IN [netloc |-> Slice(u, 3, delim - 1), rest |-> Slice(u, delim, Len(u))]

\* urlsplit raises ValueError("Invalid IPv6 URL") on an unbalanced bracket
InvalidNetloc(n) ==
  \/ "[" \in Range(n) /\ "]" \notin Range(n)
  \/ "]" \in Range(n) /\ "[" \notin Range(n)

\* text before the first occurrence of c (all of it when there is none)
Before(u, c) == LET i == Find(u, c, 1) IN IF i = 0 THEN u ELSE Slice(u, 1, i - 1)

\* _splitparams: cut at the first ; of the last path segment
SplitParams(u) ==
  LET from == IF "/" \in Range(u) THEN RFind(u, "/") ELSE 1
      i == Find(u, ";", from)
  IN IF i = 0 THEN u ELSE Slice(u, 1, i - 1)

\* [raised, path]: raised is None or the name of the exception
urlparse(u) ==
  LET s == SplitScheme(u)
      hasNetloc == Len(s.rest) >= 2 /\ s.rest[1] = "/" /\ s.rest[2] = "/"
      n == IF hasNetloc THEN SplitNetloc(s.rest) ELSE [netloc |-> <<>>, rest |-> s.rest]
      noFragment == Before(n.rest, "#")
      noQuery == Before(noFragment, "?")
      path == IF s.scheme \in UsesParams THEN SplitParams(noQuery) ELSE noQuery
  IN IF hasNetloc /\ InvalidNetloc(n.netloc)
     THEN [raised |-> Some("ValueError"), path |-> <<>>]
     ELSE [raised |-> None, path |-> path]

\* ------------------------------------------------------------------------
\* scripts/kalshi_api.py: parse_kalshi_url
\* ------------------------------------------------------------------------

CATEGORY == <<"c","a","t","e","g","o","r","y">>

SPORTS == <<"s","p","o","r","t","s">>

MARKETS == <<"m","a","r","k","e","t","s">>

\* the dicts parse_kalshi_url returns; a key the dict lacks is None
Intent(t, slug, ticker) == [type |-> t, category_slug |-> slug, event_ticker |-> ticker]

Home == Intent("home", None, None)

\* [raised, value]
Returned(v) == [raised |-> None, value |-> v]

Raised(e) == [raised |-> Some(e), value |-> None]

IsBareTicker(stripped) == "/" \notin Range(stripped) /\ "." \notin Range(stripped)

\* the ticker of a long market URL is taken from the slug segment
ClassifySegments_TickerFromSlug(segments) ==
  IF segments[1] = CATEGORY /\ Len(segments) >= 2
    THEN Intent("category", Some(segments[2]), None)
  ELSE IF segments[1] = SPORTS /\ Len(segments) >= 2
    THEN Intent("category", Some(segments[2]), None)
  ELSE IF segments[1] = MARKETS /\ Len(segments) >= 2
    THEN Intent("market", None, Some(Upper(segments[2])))
  ELSE Home

\* the /sports/<slug> rule is missing
ClassifySegments_NoSports(segments) ==
  IF segments[1] = CATEGORY /\ Len(segments) >= 2
    THEN Intent("category", Some(segments[2]), None)
  ELSE IF segments[1] = MARKETS /\ Len(segments) >= 3
    THEN Intent("market", None, Some(Upper(segments[Len(segments)])))
  ELSE IF segments[1] = MARKETS /\ Len(segments) = 2
    THEN Intent("market", None, Some(Upper(segments[2])))
  ELSE Home

\* the classification of the path's segments, lines 108-130
ClassifySegments(segments) ==
  IF segments[1] = CATEGORY /\ Len(segments) >= 2
    THEN Intent("category", Some(segments[2]), None)
  ELSE IF segments[1] = SPORTS /\ Len(segments) >= 2
    THEN Intent("category", Some(segments[2]), None)
  ELSE IF segments[1] = MARKETS /\ Len(segments) >= 3
    THEN Intent("market", None, Some(Upper(segments[Len(segments)])))
  ELSE IF segments[1] = MARKETS /\ Len(segments) = 2
    THEN Intent("market", None, Some(Upper(segments[2])))
  ELSE Home

\* the ticker keeps the case it was typed in
BareTicker_NoUpper(stripped) == Intent("event_ticker", None, Some(stripped))

\* line 99
BareTicker(stripped) == Intent("event_ticker", None, Some(Upper(stripped)))

parse_kalshi_url(u) ==
  LET stripped == Strip(u)
  IN IF IsBareTicker(stripped)
     THEN Returned(BareTicker(stripped))
     ELSE LET parsed == urlparse(stripped)
              path == StripChars(parsed.path, {"/"})
          IN IF parsed.raised # None THEN Raised(parsed.raised[1])
             ELSE IF path = <<>> THEN Returned(Home)
             ELSE Returned(ClassifySegments(Split(path, "/")))

\* ------------------------------------------------------------------------
\* Numbers: round() and str() of Python
\* ------------------------------------------------------------------------

\* round(n / d) for d > 0: nearest integer, a tie goes to the even one
RoundHalfEven(n, d) ==
  LET q == n \div d
      r == n % d
  IN IF 2 * r < d THEN q
     ELSE IF 2 * r > d THEN q + 1
     ELSE IF q % 2 = 0 THEN q ELSE q + 1

RECURSIVE NatToText(_)
NatToText(n) ==
  IF n < 10 THEN <<DigitChars[n + 1]>>
  ELSE NatToText(n \div 10) \o <<DigitChars[(n % 10) + 1]>>

\* str(n) of an int
IntToText(n) == IF n < 0 THEN <<"-">> \o NatToText(0 - n) ELSE NatToText(n)

\* ------------------------------------------------------------------------
\* scripts/kalshi_api.py: _market_price_cents
\* ------------------------------------------------------------------------

\* market.get("last_price") or market.get("yes_ask") or ...: a price of 0 is
\* taken for a missing one
FirstPresent_ZeroIsMissing(m) ==
  IF m.last_price # None /\ m.last_price[1] # 0 THEN m.last_price
  ELSE IF m.yes_ask # None /\ m.yes_ask[1] # 0 THEN m.yes_ask
  ELSE m.yes_bid

\* market.get(key): None when the key is missing or null
FirstPresent(m) ==
  IF m.last_price # None THEN m.last_price
  ELSE IF m.yes_ask # None THEN m.yes_ask
  ELSE m.yes_bid

\* None, or Some(round(float(price))); price is in tenths
_market_price_cents(m) ==
  LET price == FirstPresent(m)
  IN IF price # None THEN Some(RoundHalfEven(price[1], 10)) ELSE None

\* ------------------------------------------------------------------------
\* scripts/scrape_markets.py: _parse_price
\* ------------------------------------------------------------------------

\* the cent sign, named by its code point
CENT == "U+00A2"

Glyphs == {CENT, "$", "%"}

\* raw.replace(g, "") for the three glyphs
RECURSIVE RemoveGlyphs(_)
RemoveGlyphs(s) ==
  IF s = <<>> THEN <<>>
  ELSE IF Head(s) \in Glyphs THEN RemoveGlyphs(Tail(s))
  ELSE <<Head(s)>> \o RemoveGlyphs(Tail(s))

\* length of the run of digits of s that starts at index i
RECURSIVE DigitRun(_, _)
DigitRun(s, i) == IF i <= Len(s) /\ IsDigit(s[i]) THEN 1 + DigitRun(s, i + 1) ELSE 0

\* int() of a text of digits
RECURSIVE TextToNat(_)
TextToNat(s) ==
  IF s = <<>> THEN 0
  ELSE 10 * TextToNat(SubSeq(s, 1, Len(s) - 1)) + (IndexIn(s[Len(s)], DigitChars) - 1)

RECURSIVE Pow10(_)
Pow10(k) == IF k = 0 THEN 1 ELSE 10 * Pow10(k - 1)

\* re.search(r"(\d+\.?\d*)", s): None, or the number matched as
\* [num, den], the value being num / den
SearchNumber(s) ==
  LET starts == {i \in 1..Len(s) : IsDigit(s[i])}
  IN IF starts = {} THEN None
     ELSE LET i == CHOOSE a \in starts : \A b \in starts : a <= b
              n == DigitRun(s, i)
              dot == i + n <= Len(s) /\ s[i + n] = "."
              k == IF dot THEN DigitRun(s, i + n + 1) ELSE 0
              whole == TextToNat(SubSeq(s, i, i + n - 1))
              frac == IF k = 0 THEN 0 ELSE TextToNat(SubSeq(s, i + n + 1, i + n + k))
          IN Some([num |-> whole * Pow10(k) + frac, den |-> Pow10(k)])

\* None, or Some(price)
_parse_price(text) ==
  LET cleaned == Strip(RemoveGlyphs(text))
      match == SearchNumber(cleaned)
  IN IF match # None
     THEN LET value == match[1]
          IN IF value.num < value.den
             THEN Some(RoundHalfEven(value.num * 100, value.den))
             ELSE Some(RoundHalfEven(value.num, value.den))
     ELSE None

\* ------------------------------------------------------------------------
\* scripts/kalshi_api.py: event_to_market_result
\* ------------------------------------------------------------------------

PERCENT == "%"

Outcome(label, price, rawText) == [label |-> label, price_cents |-> price, raw |-> rawText]

\* the result dict; status and error are None or Some(text)
MarketResult(title, outcomes, status, error) ==
  [title |-> title, outcomes |-> outcomes, status |-> status, error |-> error]

\* Python truth of an optional text: None and "" are false
Truthy(opt) == opt # None /\ opt[1] # ""

\* the title is tried before the sub-title
MarketLabel_TitleFirst(m) ==
  IF Truthy(m.title) THEN m.title[1]
  ELSE IF Truthy(m.yes_sub_title) THEN m.yes_sub_title[1]
  ELSE IF m.ticker # None THEN m.ticker[1]
  ELSE ""

\* m.get("yes_sub_title") or m.get("title") or m.get("ticker", "")
MarketLabel(m) ==
  IF Truthy(m.yes_sub_title) THEN m.yes_sub_title[1]
  ELSE IF Truthy(m.title) THEN m.title[1]
  ELSE IF m.ticker # None THEN m.ticker[1]
  ELSE ""

\* f"{price}%"
PercentText(price) == IntToText(price) \o <<PERCENT>>

\* "No" is given the price of "Yes"
BinaryOutcomes_NoCopiesYes(m) ==
  LET yes_price == _market_price_cents(m)
  IN IF yes_price # None
     THEN << Outcome("Yes", yes_price[1], PercentText(yes_price[1])),
             Outcome("No", yes_price[1], PercentText(yes_price[1])) >>
     ELSE <<>>

\* lines 250-266: Yes/No synthesized from the single market
BinaryOutcomes(m) ==
  LET yes_price == _market_price_cents(m)
  IN IF yes_price # None
     THEN LET no_price == 100 - yes_price[1]
          IN << Outcome("Yes", yes_price[1], PercentText(yes_price[1])),
                Outcome("No", no_price, PercentText(no_price)) >>
     ELSE <<>>

\* lines 267-277: one outcome per market that has a price
RECURSIVE MultiOutcomes(_)
MultiOutcomes(markets) ==
  IF markets = <<>> THEN <<>>
  ELSE LET m == Head(markets)
           price == _market_price_cents(m)
       IN (IF price # None
           THEN << Outcome(MarketLabel(m), price[1], PercentText(price[1])) >>
           ELSE <<>>) \o MultiOutcomes(Tail(markets))

\* "ok" if result["outcomes"] else "no_outcomes_found"
StatusOf(outcomes) == IF outcomes # <<>> THEN Some("ok") ELSE Some("no_outcomes_found")

\* event.get("markets", []) and event.get("mutually_exclusive", False)
MarketsOf(e) == IF e.markets = None THEN <<>> ELSE e.markets[1]

MutuallyExclusive(e) == e.mutually_exclusive # None /\ e.mutually_exclusive[1]

IsBinary(e) == Len(MarketsOf(e)) = 1 /\ ~MutuallyExclusive(e)

\* the error text is left unset
NoMarketsResult_NoError(e) == MarketResult(e.title, <<>>, Some("no_outcomes_found"), None)

\* lines 243-246
NoMarketsResult(e) ==
  MarketResult(e.title, <<>>, Some("no_outcomes_found"),
               Some("No markets found for this event."))

event_to_market_result(e) ==
  LET markets == MarketsOf(e)
  IN IF markets = <<>>
     THEN NoMarketsResult(e)
     ELSE LET outcomes == IF IsBinary(e) THEN BinaryOutcomes(markets[1])
                          ELSE MultiOutcomes(markets)
          IN MarketResult(e.title, outcomes, StatusOf(outcomes), None)

\* ------------------------------------------------------------------------
\* scripts/kalshi_api.py: _api_get and fetch_event
\* The transport t is what urllib does for the request: t.failure names the
\* exception of the step that fails (urlopen: HTTPError or URLError;
\* resp.read(): TimeoutError; .decode("utf-8"): UnicodeDecodeError;
\* json.loads: JSONDecodeError), None when no step fails, and then t.body
\* is the JSON value: a list, or a dict with or without the key "event".
\* ------------------------------------------------------------------------

\* the except clauses of lines 68-78
Converted == {"HTTPError", "URLError", "JSONDecodeError"}

_api_get(t) ==
  IF t.failure = None THEN Returned(t.body)
  ELSE IF t.failure[1] \in Converted THEN Raised("KalshiAPIError")
  ELSE Raised(t.failure[1])

\* data.get("event", data); a list has no .get
fetch_event(event_ticker, t) ==
  LET data == _api_get(t)
  IN IF data.raised # None THEN data
     ELSE IF data.value.is_list THEN Raised("AttributeError")
     ELSE IF data.value.event # None THEN Returned(data.value.event[1])
     ELSE Returned([title |-> data.value.title, markets |-> data.value.markets,
                    mutually_exclusive |-> data.value.mutually_exclusive])

\* ------------------------------------------------------------------------
\* scripts/kalshi_api.py: _ticker_to_slug
\* ------------------------------------------------------------------------

SlugMaxLen == 60

\* [a-z0-9]
IsSlugChar(c) == c \in Range(LowerChars) \cup Range(DigitChars)

\* re.sub(r"[^a-z0-9]+", "-", s): every maximal run of other characters
\* becomes one hyphen
Hyphenate(s) ==
  LET mark == [i \in 1..Len(s) |->
                 IF IsSlugChar(s[i]) THEN s[i]
                 ELSE IF i = 1 THEN "-"
                 ELSE IF IsSlugChar(s[i - 1]) THEN "-"
                 ELSE ""]
  IN SelectSeq(mark, LAMBDA c : c # "")

\* s[:n]
Prefix(s, n) == IF Len(s) <= n THEN s ELSE SubSeq(s, 1, n)

_ticker_to_slug(title) ==
  Prefix(StripChars(Hyphenate(Lower(title)), {"-"}), SlugMaxLen)

\* ------------------------------------------------------------------------
\* scripts/kalshi_api.py: events_to_browse_list
\* An event is [title, event_ticker, series_ticker], each a text or None
\* when the key is missing.
\* ------------------------------------------------------------------------

KALSHI_WEB ==
  <<"h","t","t","p","s",":","/","/","k","a","l","s","h","i",".","c","o","m">>

\* event.get(key, "")
GetText(opt) == IF opt = None THEN <<>> ELSE opt[1]

BrowseEntry(title, u) == [title |-> title, url |-> u]

BrowseUrl_TickerBeforeSlug(series_ticker, slug, ticker) ==
  KALSHI_WEB \o <<"/">> \o MARKETS \o <<"/">> \o Lower(series_ticker)
    \o <<"/">> \o Lower(ticker) \o <<"/">> \o slug

\* line 216
BrowseUrl(series_ticker, slug, ticker) ==
  KALSHI_WEB \o <<"/">> \o MARKETS \o <<"/">> \o Lower(series_ticker)
    \o <<"/">> \o slug \o <<"/">> \o Lower(ticker)

\* the loop of lines 205-221 over the events still to visit, results being
\* the list built so far; the length is compared after the append
RECURSIVE BrowseLoop(_, _, _)
BrowseLoop(events, max_markets, results) ==
  IF events = <<>> THEN results
  ELSE LET e == Head(events)
           title == GetText(e.title)
           ticker == GetText(e.event_ticker)
           series_ticker == GetText(e.series_ticker)
       IN IF title = <<>> \/ ticker = <<>>
          THEN BrowseLoop(Tail(events), max_markets, results)
          ELSE LET appended ==
                     Append(results,
                            BrowseEntry(title,
                                        BrowseUrl(series_ticker, _ticker_to_slug(title), ticker)))
               IN IF Len(appended) >= max_markets THEN appended
                  ELSE BrowseLoop(Tail(events), max_markets, appended)

events_to_browse_list(events, max_markets) == BrowseLoop(events, max_markets, <<>>)

\* ------------------------------------------------------------------------
\* main.py: market
\* ------------------------------------------------------------------------

\* the dict market() builds itself, lines 56-61 and 67-72
ErrorResult(message) == MarketResult(None, <<>>, Some("error"), Some(message))

NoTicker_OnlyMissing(intent) == intent.event_ticker = None

\* `not event_ticker`
NoTicker(intent) == intent.event_ticker = None \/ intent.event_ticker[1] = <<>>

\* t is what the HTTP transport does for the one request: it fails with
\* t.failure, or it delivers the JSON value t.body.
\* [raised, value, fetch_calls]: fetch_calls is the sequence of the tickers
\* fetch_event was called with.  Only KalshiAPIError is caught.
market(u, t) ==
  LET parsed == parse_kalshi_url(u)
  IN IF parsed.raised # None
       THEN [raised |-> parsed.raised, value |-> None, fetch_calls |-> <<>>]
     ELSE IF NoTicker(parsed.value)
       THEN [raised |-> None, fetch_calls |-> <<>>,
             value |-> Some(ErrorResult("Could not extract event ticker from URL"))]
     ELSE LET event_ticker == parsed.value.event_ticker[1]
              got == fetch_event(event_ticker, t)
          IN IF got.raised = None
               THEN [raised |-> None, fetch_calls |-> <<event_ticker>>,
                     value |-> Some(event_to_market_result(got.value))]
             ELSE IF got.raised = Some("KalshiAPIError")
               THEN [raised |-> None, fetch_calls |-> <<event_ticker>>,
                     value |-> Some(ErrorResult("KalshiAPIError"))]
             ELSE [raised |-> got.raised, value |-> None,
                   fetch_calls |-> <<event_ticker>>]

\* ------------------------------------------------------------------------
\* scripts/scrape_markets.py: scrape_market_page
\* The driver is the page p it renders: p.timed_out (the wait raised
\* TimeoutException), p.title (the heading found, or driver.title),
\* p.elements (the price elements the loop gets through, each with its tag,
\* its text and the label the walk up its parents finds, None when it finds
\* none) and p.failed (the driver raised inside the extraction after them).
\* ------------------------------------------------------------------------

MaxTextLength == 10

\* re.search(r"\d+[%\u00a2]", text)
LooksLikePrice(t) == \E i \in 1..(Len(t) - 1) : IsDigit(t[i]) /\ t[i + 1] \in {PERCENT, CENT}

\* lines 210-251: the outcomes appended for the elements, in order
RECURSIVE Extracted(_)
Extracted(elements) ==
  IF elements = <<>> THEN <<>>
  ELSE LET el == Head(elements)
           price == _parse_price(el.text)
           kept == /\ el.tag \notin {"tspan", "text"}
                   /\ Len(el.text) <= MaxTextLength
                   /\ LooksLikePrice(el.text)
                   /\ price # None
                   /\ price[1] <= 100
                   /\ Truthy(el.label)
       IN (IF kept THEN << Outcome(el.label[1], price[1], el.text) >> ELSE <<>>)
          \o Extracted(Tail(elements))

\* the key of line 260: (o["label"], o["price_cents"])
KeyOf(o) == <<o.label, o.price_cents>>

RECURSIVE Unique_KeepsLast(_, _)
Unique_KeepsLast(outcomes, seen) ==
  IF outcomes = <<>> THEN <<>>
  ELSE LET o == Head(outcomes)
           rest == Tail(outcomes)
       IN IF \E i \in 1..Len(rest) : KeyOf(rest[i]) = KeyOf(o)
          THEN Unique_KeepsLast(rest, seen)
          ELSE <<o>> \o Unique_KeepsLast(rest, seen)

\* lines 256-263: keep the first outcome of every (label, price_cents)
RECURSIVE Unique(_, _)
Unique(outcomes, seen) ==
  IF outcomes = <<>> THEN <<>>
  ELSE LET o == Head(outcomes)
           key == KeyOf(o)
       IN IF key \notin seen
          THEN <<o>> \o Unique(Tail(outcomes), seen \cup {key})
          ELSE Unique(Tail(outcomes), seen)

\* [o for o in unique if "%" in o["raw"]]
RECURSIVE PercentOnly(_)
PercentOnly(outcomes) ==
  IF outcomes = <<>> THEN <<>>
  ELSE (IF PERCENT \in Range(Head(outcomes).raw) THEN <<Head(outcomes)>> ELSE <<>>)
       \o PercentOnly(Tail(outcomes))

PreferPercent_Always(unique) == PercentOnly(unique)

\* lines 268-271
PreferPercent(unique) ==
  LET has_percent == \E i \in 1..Len(unique) : PERCENT \in Range(unique[i].raw)
      has_cents == \E i \in 1..Len(unique) : CENT \in Range(unique[i].raw)
  IN IF has_percent /\ has_cents THEN PercentOnly(unique) ELSE unique

scrape_market_page(p) ==
  IF p.timed_out
  THEN MarketResult(None, <<>>, None, Some("Timed out waiting for market page to render."))
  ELSE LET outcomes == PreferPercent(Unique(Extracted(p.elements), {}))
           error == IF p.failed THEN Some("Outcome extraction failed") ELSE None
       IN MarketResult(Some(p.title), outcomes, StatusOf(outcomes), error)

\* ------------------------------------------------------------------------
\* Inputs
\* ------------------------------------------------------------------------

MaxPieces == 3

MaxMarkets == 2

MaxTextLen == 4

MaxElements == 2

MaxEvents == 2

MaxCap == 2

MaxTitlePieces == 3

SeqsUpTo(S, n) == UNION {[1..k -> S] : k \in 0..n}

RECURSIVE Concat(_)
Concat(ss) == IF ss = <<>> THEN <<>> ELSE Head(ss) \o Concat(Tail(ss))

\* a URL is a concatenation of at most MaxPieces of these
UrlPieces ==
  { <<" ">>,
    <<"h","t","t","p","s",":","/","/","k",".","c">>,
    <<"/","/","[">>,
    <<"/">> \o MARKETS,
    <<"/">> \o CATEGORY,
    <<"/">> \o SPORTS,
    <<"/">>,
    <<"/","a">>,
    <<"/","A","b">>,
    <<"/","x","/","k","-","1">>,
    <<"k","x","-","2","6">>,
    <<"X">>,
    <<".">>,
    <<"?","q">>,
    <<"#","f">>,
    <<";","p">> }

Urls == {Concat(ps) : ps \in SeqsUpTo(UrlPieces, MaxPieces)}

Prices == {None, Some(0), Some(655), Some(1500), Some(0 - 50)}

RawMarket(sub, title, ticker, last, ask, bid) ==
  [yes_sub_title |-> sub, title |-> title, ticker |-> ticker,
   last_price |-> last, yes_ask |-> ask, yes_bid |-> bid]

\* the market dicts that _market_price_cents is tried on
PricedMarkets ==
  { RawMarket(None, None, Some("KX-CUT"), last, ask, bid) :
      last \in Prices \cup {Some(5), Some(830), Some(1000), Some(1004)},
      ask \in {None, Some(470), Some(1015)},
      bid \in {None, Some(125)} }

\* the market dicts of an event: every way of labelling one, and every way
\* of pricing one
EventMarkets ==
  { RawMarket(sub, title, ticker, Some(830), None, None) :
      sub \in {None, Some(""), Some("Hold")},
      title \in {None, Some("Rate")},
      ticker \in {None, Some("KX-HOLD")} }
  \cup
  { RawMarket(Some("Cut"), None, Some("KX-CUT"), last, None, None) : last \in Prices }
  \cup
  { RawMarket(Some("Cut"), None, Some("KX-CUT"), None, ask, bid) :
      ask \in {None, Some(470)}, bid \in {None, Some(125)} }

EventsOf(marketLists) ==
  { [title |-> t, markets |-> ms, mutually_exclusive |-> mx] :
      t \in {None, Some("Fed decision")},
      ms \in marketLists,
      mx \in {None, Some(TRUE), Some(FALSE)} }

Events == EventsOf({None} \cup {Some(ms) : ms \in SeqsUpTo(EventMarkets, MaxMarkets)})

TextChars == {"0", "1", "5", ".", PERCENT, "$", CENT, " "}

PriceTexts == SeqsUpTo(TextChars, MaxTextLen)

Elements ==
  { [tag |-> "span", text |-> t, label |-> l] :
      t \in { <<"4","7",PERCENT>>, <<"1","5",CENT>>, <<"1","5",PERCENT>> },
      l \in {None, Some("Yes"), Some("Hold")} }
  \cup { [tag |-> "tspan", text |-> <<"4","7",PERCENT>>, label |-> Some("Hold")] }
  \cup { [tag |-> "span", text |-> t, label |-> Some("Yes")] :
           t \in { <<"1","5","0",PERCENT>>, <<"5">>, <<"<","1",PERCENT>>,
                   <<"5",PERCENT,CENT>> } }

Pages ==
  { [timed_out |-> to, title |-> "Fed decision", elements |-> els, failed |-> f] :
      to \in BOOLEAN, els \in SeqsUpTo(Elements, MaxElements), f \in BOOLEAN }

\* the urls market() is tried on
MarketUrls ==
  { <<>>, <<" ">>, <<"k","x","-","2","6">>, <<" ","k","x"," ">>,
    <<"h","t","t","p","s",":","/","/","k",".","c">>,
    <<"h","t","t","p","s",":","/","/","k",".","c">> \o <<"/">> \o CATEGORY \o <<"/","a">>,
    <<"h","t","t","p","s",":","/","/","k",".","c">> \o <<"/">> \o SPORTS \o <<"/","a">>,
    <<"h","t","t","p","s",":","/","/","k",".","c">> \o <<"/">> \o MARKETS \o <<"/","a">>,
    <<"h","t","t","p","s",":","/","/","k",".","c">> \o <<"/">> \o MARKETS
      \o <<"/","k","x","/","f","e","d","/","k","x","-","2","6">>,
    <<"/","/","[">> \o <<"/">> \o MARKETS \o <<"/","a">> }

\* the events the API delivers for one ticker
FetchedEvents == EventsOf({None} \cup {Some(ms) : ms \in SeqsUpTo(EventMarkets, 1)})

\* the JSON values of a response: a list, a dict {"event": e}, or a dict that
\* is the event itself
JsonBodies ==
  { [is_list |-> TRUE, event |-> None, title |-> None, markets |-> None,
     mutually_exclusive |-> None] }
  \cup { [is_list |-> FALSE, event |-> Some(e), title |-> None, markets |-> None,
          mutually_exclusive |-> None] : e \in FetchedEvents }
  \cup { [is_list |-> FALSE, event |-> None, title |-> e.title, markets |-> e.markets,
          mutually_exclusive |-> e.mutually_exclusive] : e \in FetchedEvents }

Transports ==
  { [failure |-> None, body |-> b] : b \in JsonBodies }
  \cup { [failure |-> Some(x), body |-> None] :
           x \in Converted \cup {"TimeoutError", "UnicodeDecodeError"} }

\* the events events_to_browse_list is tried on: every valid combination,
\* and one event for every way of lacking a title or a ticker
BrowseTitles == { <<"F","e","d",":"," ","A">>, <<"!">> }

BrowseTickers == { <<"K","X","-","a","1">>, <<"E","v",";","b">> }

BrowseSeries == { None, Some(<<"K","X","s">>), Some(<<"k","?","x">>) }

BrowseEvents ==
  { [title |-> Some(t), event_ticker |-> Some(k), series_ticker |-> sr] :
      t \in BrowseTitles, k \in BrowseTickers, sr \in BrowseSeries }
  \cup
  { [title |-> t, event_ticker |-> k, series_ticker |-> Some(<<"K","X","s">>)] :
      t \in {None, Some(<<>>)}, k \in {Some(<<"K","X","-","a","1">>)} }
  \cup
  { [title |-> t, event_ticker |-> k, series_ticker |-> Some(<<"K","X","s">>)] :
      t \in {Some(<<"N","o"," ","k","e","y">>)}, k \in {None, Some(<<>>)} }

\* a title is a concatenation of at most MaxTitlePieces of these; the long
\* run brings a slug up to the cut
TitlePieces ==
  { [i \in 1..(SlugMaxLen - 1) |-> "a"],
    <<"a">>, <<"B","7">>, <<"-">>, <<" ">>, <<"!","?">> }

Titles == {Concat(ps) : ps \in SeqsUpTo(TitlePieces, MaxTitlePieces)}

\* ------------------------------------------------------------------------
\* The state machine: one call of one function
\* ------------------------------------------------------------------------

Functions ==
  {"parse_kalshi_url", "_market_price_cents", "_parse_price",
   "event_to_market_result", "market", "scrape_market_page",
   "events_to_browse_list", "_ticker_to_slug"}

Init ==
  /\ pc = "call"
  /\ result = None
  /\ fn \in Functions
  /\ IF fn \in {"parse_kalshi_url"} THEN url \in Urls
     ELSE IF fn = "market" THEN url \in MarketUrls
     ELSE url = None
  /\ IF fn = "market" THEN transport \in Transports ELSE transport = None
  /\ IF fn = "event_to_market_result" THEN event \in Events ELSE event = None
  /\ IF fn = "_market_price_cents" THEN raw_market \in PricedMarkets ELSE raw_market = None
  /\ IF fn = "_parse_price" THEN price_text \in PriceTexts ELSE price_text = None
  /\ IF fn = "scrape_market_page" THEN page \in Pages ELSE page = None
  /\ IF fn = "events_to_browse_list"
     THEN browse_events \in SeqsUpTo(BrowseEvents, MaxEvents) /\ browse_max \in 0..MaxCap
     ELSE browse_events = None /\ browse_max = 0
  /\ IF fn = "_ticker_to_slug" THEN slug_title \in Titles ELSE slug_title = None

Return(f, value) ==
  /\ fn = f
  /\ pc = "call"
  /\ pc' = "return"
  /\ result' = value
  /\ UNCHANGED <<fn, url, event, raw_market, price_text, page, transport,
                 browse_events, browse_max, slug_title>>

ParseKalshiUrl == Return("parse_kalshi_url", parse_kalshi_url(url))

MarketPriceCents == Return("_market_price_cents", _market_price_cents(raw_market))

ParsePrice == Return("_parse_price", _parse_price(price_text))

EventToMarketResult == Return("event_to_market_result", event_to_market_result(event))

Market == Return("market", market(url, transport))

ScrapeMarketPage == Return("scrape_market_page", scrape_market_page(page))

EventsToBrowseList ==
  Return("events_to_browse_list", events_to_browse_list(browse_events, browse_max))

TickerToSlug == Return("_ticker_to_slug", _ticker_to_slug(slug_title))

Next ==
  \/ ParseKalshiUrl
  \/ MarketPriceCents
  \/ ParsePrice
  \/ EventToMarketResult
  \/ Market
  \/ ScrapeMarketPage
  \/ EventsToBrowseList
  \/ TickerToSlug

Spec == Init /\ [][Next]_vars

\* ------------------------------------------------------------------------
\* Properties
\* ------------------------------------------------------------------------

Done(f) == fn = f /\ pc = "return"

\* the invariant of section 3 for a result r; fetchError is whether the
\* fetch behind it failed
ResultInvariant(r, fetchError) ==
  /\ (r.status = Some("ok")) <=> (r.outcomes # <<>> /\ ~fetchError)
  /\ (r.error # None) <=> (r.status \in {Some("error"), Some("no_outcomes_found")})

\* C1: every MarketResult returned by market(), event_to_market_result() or
\* scrape_market_page() has status "ok" iff outcomes is non-empty and no
\* fetch error occurred, and error set iff status is "error" or
\* "no_outcomes_found".
C1_StatusAndErrorAgree ==
  /\ Done("event_to_market_result") => ResultInvariant(result, FALSE)
  /\ (Done("market") /\ result.raised = None)
       => ResultInvariant(result.value[1],
                          /\ result.fetch_calls # <<>>
                          /\ fetch_event(result.fetch_calls[1], transport).raised # None)
  /\ Done("scrape_market_page") => ResultInvariant(result, page.timed_out \/ page.failed)

\* C2: for an event with exactly one market and mutually_exclusive false, a
\* price p from the fallback chain gives exactly the outcomes ("Yes", p) and
\* ("No", 100 - p) in this order with status "ok", the two prices summing to
\* 100; no price gives zero outcomes.
C2_BinarySynthesis ==
  (/\ Done("event_to_market_result")
   /\ event.markets # None
   /\ Len(event.markets[1]) = 1
   /\ event.mutually_exclusive \in {None, Some(FALSE)})
  => LET p == _market_price_cents(event.markets[1][1])
         os == result.outcomes
     IN IF p # None
        THEN /\ Len(os) = 2
             /\ os[1].label = "Yes" /\ os[1].price_cents = p[1]
             /\ os[2].label = "No" /\ os[2].price_cents = 100 - p[1]
             /\ os[1].price_cents + os[2].price_cents = 100
             /\ result.status = Some("ok")
        ELSE os = <<>>

C2_Witness ==
  /\ Done("event_to_market_result")
  /\ event.markets # None
  /\ Len(event.markets[1]) = 1
  /\ event.mutually_exclusive = Some(FALSE)
  /\ event.markets[1][1].last_price = Some(655)
  /\ Len(result.outcomes) = 2
  /\ result.outcomes[1].price_cents = 66
  /\ result.outcomes[2].price_cents = 34

InRange(p) == p \in 0..100

AllInRange(outcomes) == \A i \in 1..Len(outcomes) : InRange(outcomes[i].price_cents)

\* C3: every price produced by _market_price_cents and _parse_price, and the
\* price_cents of every outcome of any result, is an integer in [0,100] or
\* absent.
C3_PricesInRange ==
  /\ Done("_market_price_cents") => (result = None \/ InRange(result[1]))
  /\ Done("_parse_price") => (result = None \/ InRange(result[1]))
  /\ Done("event_to_market_result") => AllInRange(result.outcomes)
  /\ (Done("market") /\ result.raised = None) => AllInRange(result.value[1].outcomes)
  /\ Done("scrape_market_page") => AllInRange(result.outcomes)

\* C4: an event with zero markets (missing or empty list) gives status
\* "no_outcomes_found", no outcomes and a non-null error, whatever the
\* mutually_exclusive flag.
C4_NoMarkets ==
  (Done("event_to_market_result") /\ event.markets \in {None, Some(<<>>)})
  => /\ result.status = Some("no_outcomes_found")
     /\ result.outcomes = <<>>
     /\ result.error # None

C4_Witness ==
  /\ Done("event_to_market_result")
  /\ event.markets = Some(<<>>)
  /\ event.mutually_exclusive = Some(TRUE)
  /\ result.status = Some("no_outcomes_found")
  /\ result.error # None

HasPrice(m) == m.last_price # None \/ m.yes_ask # None \/ m.yes_bid # None

\* the first available of yes_sub_title, title, ticker
FirstAvailableLabel(m) ==
  IF m.yes_sub_title \notin {None, Some("")} THEN m.yes_sub_title[1]
  ELSE IF m.title \notin {None, Some("")} THEN m.title[1]
  ELSE IF m.ticker # None THEN m.ticker[1]
  ELSE ""

MultiOutcomeMode ==
  /\ event.markets # None
  /\ \/ Len(event.markets[1]) >= 2
     \/ Len(event.markets[1]) = 1 /\ event.mutually_exclusive = Some(TRUE)

\* C5: in multi-outcome mode the outcomes are exactly the markets that have a
\* price, in market order, one outcome each, labelled by the first available
\* of yes_sub_title, title, ticker; unpriced markets are skipped without an
\* error, and status is "ok" iff at least one market had a price.
C5_MultiOutcome ==
  (Done("event_to_market_result") /\ MultiOutcomeMode)
  => LET ms == event.markets[1]
         priced == {i \in 1..Len(ms) : HasPrice(ms[i])}
         nth(k) == CHOOSE i \in priced : Cardinality({j \in priced : j <= i}) = k
         os == result.outcomes
     IN /\ Len(os) = Cardinality(priced)
        /\ \A k \in 1..Len(os) :
             /\ os[k].label = FirstAvailableLabel(ms[nth(k)])
             /\ Some(os[k].price_cents) = _market_price_cents(ms[nth(k)])
        /\ (result.status = Some("ok")) <=> (priced # {})
        /\ result.status \in {Some("ok"), Some("no_outcomes_found")}

C5_Witness ==
  /\ Done("event_to_market_result")
  /\ MultiOutcomeMode
  /\ Len(event.markets[1]) = 2
  /\ ~HasPrice(event.markets[1][1])
  /\ event.markets[1][2].yes_sub_title = Some("")
  /\ event.markets[1][2].title = Some("Rate")
  /\ Len(result.outcomes) = 1
  /\ result.outcomes[1].label = "Rate"
  /\ result.status = Some("ok")

Rounded(price) == Some(RoundHalfEven(price[1], 10))

\* C6: _market_price_cents uses the first present field of last_price,
\* yes_ask, yes_bid: a present last_price even when it is 0, yes_ask only
\* when last_price is absent, yes_bid only when both are absent, and the
\* result is absent when none is present.
C6_FallbackOrder ==
  Done("_market_price_cents")
  => /\ raw_market.last_price # None => result = Rounded(raw_market.last_price)
     /\ (raw_market.last_price = None /\ raw_market.yes_ask # None)
          => result = Rounded(raw_market.yes_ask)
     /\ (raw_market.last_price = None /\ raw_market.yes_ask = None
           /\ raw_market.yes_bid # None)
          => result = Rounded(raw_market.yes_bid)
     /\ (raw_market.last_price = None /\ raw_market.yes_ask = None
           /\ raw_market.yes_bid = None)
          => result = None

C6_Witness ==
  /\ Done("_market_price_cents")
  /\ raw_market.last_price = Some(0)
  /\ raw_market.yes_ask = Some(470)
  /\ raw_market.yes_bid = Some(125)
  /\ result = Some(0)

NoSlashNoDot(u) == "/" \notin Range(u) /\ "." \notin Range(u)

\* C7, as claimed: for every string with no / and no . (also with leading or
\* trailing whitespace, also empty) parse_kalshi_url returns an EventTicker
\* whose ticker is the upper-cased input.
C7_BareTickerIsUpperInput ==
  (Done("parse_kalshi_url") /\ NoSlashNoDot(url))
  => /\ result.raised = None
     /\ result.value.type = "event_ticker"
     /\ result.value.event_ticker = Some(Upper(url))

\* C7, amended: for every string with no / and no . parse_kalshi_url returns
\* an EventTicker whose ticker is the input with its leading and trailing
\* whitespace removed, upper-cased.
C7_BareTickerIsUpperStrippedInput ==
  (Done("parse_kalshi_url") /\ NoSlashNoDot(url))
  => /\ result.raised = None
     /\ result.value.type = "event_ticker"
     /\ result.value.category_slug = None
     /\ result.value.event_ticker = Some(Upper(Strip(url)))

C7_Witness ==
  /\ Done("parse_kalshi_url")
  /\ url = <<" ", "k", "x", "-", "2", "6", " ">>
  /\ result.value.type = "event_ticker"
  /\ result.value.event_ticker = Some(<<"K", "X", "-", "2", "6">>)

\* the input is handled as a URL (it has a / or a .) and urlparse accepts it
IsUrl(u) == ~NoSlashNoDot(u) /\ urlparse(Strip(u)).raised = None

\* the URL's path, trimmed of leading and trailing /
TrimmedPath(u) == StripChars(urlparse(Strip(u)).path, {"/"})

PathSegments(u) == Split(TrimmedPath(u), "/")

\* C8: for a URL whose trimmed path has first segment markets: 3 or more
\* segments give Market with the last segment upper-cased, exactly 2 give
\* Market with segment[1] upper-cased, the single segment markets gives Home.
C8_MarketUrls ==
  (Done("parse_kalshi_url") /\ IsUrl(url) /\ TrimmedPath(url) # <<>>
     /\ PathSegments(url)[1] = MARKETS)
  => LET segs == PathSegments(url)
     IN /\ result.raised = None
        /\ Len(segs) >= 3
             => result.value = Intent("market", None, Some(Upper(segs[Len(segs)])))
        /\ Len(segs) = 2
             => result.value = Intent("market", None, Some(Upper(segs[2])))
        /\ Len(segs) = 1 => result.value = Home

C8_Witness ==
  /\ Done("parse_kalshi_url")
  /\ url = <<"h","t","t","p","s",":","/","/","k",".","c">> \o <<"/">> \o MARKETS
             \o <<"/","x","/","k","-","1">>
  /\ result.value = Intent("market", None, Some(<<"K","-","1">>))

\* C9: for a URL whose trimmed path has first segment category or sports and
\* at least 2 segments the result is Category with slug segment[1]
\* unchanged, further segments ignored; the single segment category or
\* sports gives Home.
C9_CategoryUrls ==
  (Done("parse_kalshi_url") /\ IsUrl(url) /\ TrimmedPath(url) # <<>>
     /\ PathSegments(url)[1] \in {CATEGORY, SPORTS})
  => LET segs == PathSegments(url)
     IN /\ result.raised = None
        /\ Len(segs) >= 2 => result.value = Intent("category", Some(segs[2]), None)
        /\ Len(segs) = 1 => result.value = Home

C9_Witness ==
  /\ Done("parse_kalshi_url")
  /\ url = <<"/">> \o SPORTS \o <<"/","A","b">> \o <<"/","a">>
  /\ result.value = Intent("category", Some(<<"A","b">>), None)

\* none of the category, sports and markets rules applies to the segments
NoRuleMatches(segs) ==
  ~ \/ segs[1] \in {CATEGORY, SPORTS} /\ Len(segs) >= 2
    \/ segs[1] = MARKETS /\ Len(segs) >= 2

\* C10: parse_kalshi_url is total: for every input it returns exactly one
\* Intent (Home, Category, Market or EventTicker) and never raises; every
\* input with a / or a . whose path is empty or matches none of the
\* category, sports and markets rules yields Home.
C10_ParseIsTotal ==
  Done("parse_kalshi_url")
  => /\ result.raised = None
     /\ result.value.type \in {"home", "category", "market", "event_ticker"}
     /\ (~NoSlashNoDot(url)
           /\ (TrimmedPath(url) = <<>> \/ NoRuleMatches(PathSegments(url))))
          => result.value = Home

\* C11: events_to_browse_list never returns more entries than max_markets,
\* for every event sequence and every max_markets, 0 included.
C11_AtMostMaxMarkets ==
  Done("events_to_browse_list") => Len(result) <= browse_max

\* the events that have both a title and a ticker, in input order
Kept(events) ==
  SelectSeq(events, LAMBDA e : GetText(e.title) # <<>> /\ GetText(e.event_ticker) # <<>>)

Min(a, b) == IF a <= b THEN a ELSE b

\* C12: events_to_browse_list skips every event whose title or event ticker
\* is missing or empty and emits one entry per remaining event in input
\* order: the titles of the result are exactly the first min(max_markets, k)
\* titles of the k events that have both; an event that lacks only its
\* series ticker is kept.
C12_FirstValidTitles ==
  Done("events_to_browse_list")
  => LET kept == Kept(browse_events)
         n == Min(browse_max, Len(kept))
     IN /\ Len(result) = n
        /\ \A i \in 1..Min(n, Len(result)) : result[i].title = kept[i].title[1]

\* C13: for every title the slug has at most 60 characters, no uppercase
\* letter, and neither a leading nor a trailing hyphen, also when the slug
\* before the cut is longer than 60 characters and has a hyphen at
\* position 60.
C13_SlugShape ==
  Done("_ticker_to_slug")
  => /\ Len(result) <= SlugMaxLen
     /\ \A i \in 1..Len(result) : result[i] \notin Range(UpperChars)
     /\ result # <<>> => (result[1] # "-" /\ result[Len(result)] # "-")

\* C14: re-slugging a slug gives the same slug:
\* _ticker_to_slug(_ticker_to_slug(t)) = _ticker_to_slug(t) for every title t.
C14_SlugIdempotent ==
  Done("_ticker_to_slug") => _ticker_to_slug(result) = result

\* the index of the first outcome of os that has the key of o
FirstIndex(o, os) ==
  CHOOSE k \in 1..Len(os) :
    /\ KeyOf(os[k]) = KeyOf(o)
    /\ \A j \in 1..(k - 1) : KeyOf(os[j]) # KeyOf(o)

HasGlyph(os, g) == \E i \in 1..Len(os) : g \in Range(os[i].raw)

\* C15: the final outcome list of the scraping path has no two entries with
\* the same (label, price_cents); the entry kept for a pair is the first
\* extracted outcome of that pair, with its raw text; the kept entries are
\* in the order of their first occurrences; and when the extracted outcomes
\* do not mix the units, every extracted pair is kept.
C15_DedupKeepsFirst ==
  (Done("scrape_market_page") /\ ~page.timed_out)
  => LET ex == Extracted(page.elements)
         os == result.outcomes
     IN /\ \A i, j \in 1..Len(os) : KeyOf(os[i]) = KeyOf(os[j]) => i = j
        /\ \A i \in 1..Len(os) :
             /\ \E k \in 1..Len(ex) : KeyOf(ex[k]) = KeyOf(os[i])
             /\ os[i] = ex[FirstIndex(os[i], ex)]
        /\ \A i, j \in 1..Len(os) :
             i < j => FirstIndex(os[i], ex) < FirstIndex(os[j], ex)
        /\ ~(HasGlyph(ex, PERCENT) /\ HasGlyph(ex, CENT))
             => \A k \in 1..Len(ex) : \E i \in 1..Len(os) : KeyOf(os[i]) = KeyOf(ex[k])

\* two extracted outcomes with one key and different raw texts: the first
\* is the one returned
C15_Witness ==
  /\ Done("scrape_market_page")
  /\ ~page.timed_out
  /\ LET ex == Extracted(page.elements)
     IN /\ Len(ex) = 2
        /\ KeyOf(ex[1]) = KeyOf(ex[2])
        /\ ex[1].raw # ex[2].raw
        /\ result.outcomes = <<ex[1]>>

\* C17: if the deduplicated outcomes hold at least one with a percent sign
\* in its raw text and at least one with a cent sign, the final list is
\* exactly those with a percent sign, in their order; otherwise it is the
\* deduplicated list unchanged.  So the filter never empties a non-empty
\* list and never turns status "ok" into "no_outcomes_found".
C17_PreferPercent ==
  (Done("scrape_market_page") /\ ~page.timed_out)
  => LET unique == Unique(Extracted(page.elements), {})
         mixed == HasGlyph(unique, PERCENT) /\ HasGlyph(unique, CENT)
     IN /\ result.outcomes =
             IF mixed THEN SelectSeq(unique, LAMBDA o : PERCENT \in Range(o.raw))
             ELSE unique
        /\ unique # <<>> => result.outcomes # <<>>
        /\ StatusOf(unique) = Some("ok") => result.status = Some("ok")

\* a percent outcome and a cent outcome of different pairs: the cent one is
\* dropped, the result is still "ok"
C17_Witness ==
  /\ Done("scrape_market_page")
  /\ ~page.timed_out
  /\ LET unique == Unique(Extracted(page.elements), {})
     IN /\ Len(unique) = 2
        /\ CENT \in Range(unique[1].raw) /\ PERCENT \notin Range(unique[1].raw)
        /\ PERCENT \in Range(unique[2].raw)
        /\ result.outcomes = <<unique[2]>>
        /\ result.status = Some("ok")

\* the request of a market() call fails in the transport: a step of _api_get
\* raises, or the JSON delivered is not a dict
TransportFails(t) == IF t.failure # None THEN TRUE ELSE t.body.is_list

\* C16: every failure of the transport during a market request (HTTP error
\* status, network error, invalid JSON, read timeout, undecodable body,
\* unexpected JSON shape) is caught: market() does not raise and returns
\* status "error", no outcomes, title null and a non-null error.
C16_TransportFailuresCaught ==
  (Done("market") /\ result.fetch_calls # <<>> /\ TransportFails(transport))
  => /\ result.raised = None
     /\ LET r == result.value[1]
        IN /\ r.status = Some("error")
           /\ r.outcomes = <<>>
           /\ r.title = None
           /\ r.error # None

\* the intent has no ticker to fetch: Home, Category, or the EventTicker of
\* an empty or whitespace-only input
WithoutTicker(intent) ==
  \/ intent.type \in {"home", "category"}
  \/ intent.type = "event_ticker" /\ intent.event_ticker = Some(<<>>)

\* C19: market() fetches only when the parsed intent carries a non-empty
\* event ticker.  For a Home or Category intent and for the empty or
\* whitespace-only string it returns status "error", no outcomes and a
\* non-null error without calling fetch_event; for a Market intent or a
\* non-empty EventTicker it calls fetch_event exactly once, with that ticker.
C19_FetchOnlyWithTicker ==
  (Done("market") /\ parse_kalshi_url(url).raised = None)
  => LET intent == parse_kalshi_url(url).value
     IN IF WithoutTicker(intent)
        THEN /\ result.fetch_calls = <<>>
             /\ result.raised = None
             /\ result.value[1].status = Some("error")
             /\ result.value[1].outcomes = <<>>
             /\ result.value[1].error # None
        ELSE /\ intent.type \in {"market", "event_ticker"}
             /\ intent.event_ticker[1] # <<>>
             /\ result.fetch_calls = <<intent.event_ticker[1]>>

\* a whitespace-only input: an EventTicker with an empty ticker, no fetch
C19_Witness ==
  /\ Done("market")
  /\ url = <<" ">>
  /\ parse_kalshi_url(url).value = Intent("event_ticker", None, Some(<<>>))
  /\ result.fetch_calls = <<>>
  /\ result.value[1].status = Some("error")

\* a market URL: one fetch, with the ticker of its last segment
C19_FetchWitness ==
  /\ Done("market")
  /\ parse_kalshi_url(url).raised = None
  /\ parse_kalshi_url(url).value.type = "market"
  /\ result.fetch_calls = << <<"K","X","-","2","6">> >>

\* the url of line 216 for the event e, written out
ExpectedUrl(e) ==
  KALSHI_WEB \o <<"/","m","a","r","k","e","t","s","/">>
    \o Lower(GetText(e.series_ticker)) \o <<"/">>
    \o _ticker_to_slug(e.title[1]) \o <<"/">>
    \o Lower(e.event_ticker[1])

\* the entry for e is the url of the template, and parsing it gives Market
\* with the ticker of e upper-cased
RoundTrips(entry, e) ==
  /\ entry.url = ExpectedUrl(e)
  /\ parse_kalshi_url(entry.url)
       = Returned(Intent("market", None, Some(Upper(e.event_ticker[1]))))

Avoids(s, cs) == Range(s) \cap cs = {}

\* C18 as stated: for every kept event whose event ticker has no /, ?, # or
\* whitespace, the url is https://kalshi.com/markets/{series lower-cased}/
\* {slug of title}/{ticker lower-cased} and parse_kalshi_url of it returns
\* Market with the ticker upper-cased, also for an empty series or slug.
C18_RoundTrip ==
  Done("events_to_browse_list")
  => LET kept == Kept(browse_events)
     IN \A i \in 1..Len(result) :
          Avoids(kept[i].event_ticker[1], {"/", "?", "#", " "})
          => RoundTrips(result[i], kept[i])

\* C18 amended: the same for every kept event whose event ticker has no /,
\* ?, #, ; or whitespace and whose series ticker has no ? or #.
C18_RoundTripOfPlainTickers ==
  Done("events_to_browse_list")
  => LET kept == Kept(browse_events)
     IN \A i \in 1..Len(result) :
          (/\ Avoids(kept[i].event_ticker[1], {"/", "?", "#", ";", " "})
           /\ Avoids(GetText(kept[i].series_ticker), {"?", "#"}))
          => RoundTrips(result[i], kept[i])

\* an event with no series ticker and a title whose slug is empty: the url
\* has two empty segments and still parses to the ticker
C18_Witness ==
  /\ Done("events_to_browse_list")
  /\ Len(result) = 1
  /\ LET e == Kept(browse_events)[1]
     IN /\ e.series_ticker = None
        /\ _ticker_to_slug(e.title[1]) = <<>>
        /\ Avoids(e.event_ticker[1], {"/", "?", "#", ";", " "})
        /\ result[1].url = KALSHI_WEB \o <<"/">> \o MARKETS \o <<"/","/","/">> \o Lower(e.event_ticker[1])
        /\ RoundTrips(result[1], e)

====
